---- MODULE Spec2Model ----
(***************************************************************************)
(* Model of indexedDB_Test/script.js: a promise-wrapping facade over one   *)
(* IndexedDB object store ("users", keyPath "id").                        *)
(*                                                                         *)
(* A user record is [id, val]: id is the primary key, val stands for the   *)
(* non-key fields (name, age, email) taken together.                       *)
(*                                                                         *)
(* Every facade function creates one transaction.  A transaction is a      *)
(* record of the list txns (in creation order); the platform delivers its  *)
(* events (request success / error, transaction complete / abort) and the  *)
(* handlers the script registered settle the call's promise.               *)
(*                                                                         *)
(* cleared records that the last committed write was clearUsers.           *)
(***************************************************************************)
EXTENDS Integers, Sequences, FiniteSets, TLC

VARIABLES store, txns, cleared, bulk, pages

vars == <<store, txns, cleared, bulk, pages>>

\* ------------------------------------------------------------------ bounds
MaxId == 2
MaxBatch == 2
MaxSkip == 2
TotalUsers == 4
MaxBatchSize == 3
PageSize == 1

Ids == 0..MaxId
Vals == {"a", "b"}
Users == [id : Ids, val : Vals]
MaxCount == MaxId + 2
Orders == {"asc", "desc", "newest"}

\* JavaScript's undefined and null, as values that compare with records.
Undefined == [undefined |-> TRUE]
Null == [null |-> TRUE]
NoKey == -1

\* ------------------------------------------------- the object store (platform)
\* The keys present in an object store content.
Keys(s) == {r.id : r \in s}

\* A content with at most one record per key.
UniqueKeys(s) == \A r \in s : \A q \in s : r.id = q.id => r = q

\* store.put(user): insert, or replace the record stored under user.id.
StorePut(s, u) == {r \in s : r.id # u.id} \cup {u}

\* store.delete(userId)
StoreDelete(s, id) == {r \in s : r.id # id}

\* store.clear()
StoreClear(s) == {}

\* store.get(userId): the record, or undefined when the key is absent.
StoreGet(s, id) ==
    IF \E r \in s : r.id = id THEN CHOOSE r \in s : r.id = id ELSE Undefined

\* The record a cursor delivers with its next success event: the first record
\* in the direction of travel beyond the key it stood on (NoKey: it has just
\* been opened), or null when there is none.
CursorAt(s, direction, key) ==
    LET cand == IF key = NoKey THEN s
                ELSE IF direction = "next" THEN {r \in s : r.id > key}
                ELSE {r \in s : r.id < key}
    IN  IF cand = {} THEN Null
        ELSE IF direction = "next"
             THEN CHOOSE r \in cand : \A q \in cand : r.id <= q.id
             ELSE CHOOSE r \in cand : \A q \in cand : r.id >= q.id

\* One write request applied to a content.
ApplyRequest(s, req) ==
    CASE req.type = "put" -> StorePut(s, req.user)
      [] req.type = "delete" -> StoreDelete(s, req.id)
      [] req.type = "clear" -> StoreClear(s)
      [] OTHER -> s

RECURSIVE ApplyAll(_, _)
ApplyAll(s, reqs) ==
    IF reqs = <<>> THEN s ELSE ApplyAll(ApplyRequest(s, Head(reqs)), Tail(reqs))

\* ------------------------------------------------------------ transactions
PutReq(u) == [type |-> "put", user |-> u, id |-> u.id]
DeleteReq(id) == [type |-> "delete", user |-> Null, id |-> id]
ClearReq == [type |-> "clear", user |-> Null, id |-> NoKey]

NoArg == [id |-> NoKey, users |-> <<>>, order |-> "", count |-> 0, skip |-> 0]

\* A transaction as db.transaction(USERS_STORE, mode) creates it, with the
\* locals of the call that owns it.
\*   reqs      write requests placed and not yet processed
\*   done      write requests processed inside the transaction
\*   pre       the store content when the call was made
\*   key       the key the open cursor stands on
\*   skipped, users   the locals of getUsers / getAllUsers
\*   continues the number of cursor.continue() calls
\*   seen      the number of success events that carried a record
\*   settles   the number of resolve() / reject() calls
NewTxn(op, mode, arg, reqs, s) ==
    [op |-> op, mode |-> mode, arg |-> arg, reqs |-> reqs, done |-> <<>>,
     pre |-> s, status |-> "active", promise |-> "pending", result |-> Undefined,
     key |-> NoKey, skipped |-> 0, users |-> <<>>, continues |-> 0, seen |-> 0,
     settles |-> 0]

\* resolve(v) / reject(msg): the first call settles the promise, later ones
\* are ignored.
Resolve(t, v) ==
    IF t.promise = "pending"
    THEN [t EXCEPT !.promise = "resolved", !.result = v, !.settles = @ + 1]
    ELSE [t EXCEPT !.settles = @ + 1]

Reject(t, msg) ==
    IF t.promise = "pending"
    THEN [t EXCEPT !.promise = "rejected", !.result = [error |-> msg], !.settles = @ + 1]
    ELSE [t EXCEPT !.settles = @ + 1]

ErrorMessage(op) ==
    CASE op = "addUsersBulk" -> "Failed to add users in bulk"
      [] op = "addUser" -> "Failed to add user"
      [] op = "deleteUser" -> "Failed to delete user"
      [] op = "clearUsers" -> "Failed to clear users"
      [] op = "getUser" -> "Failed to retrieve user"
      [] op = "getAllUsers" -> "Failed to retrieve all users"
      [] OTHER -> "Failed to retrieve users"

\* ---------------------------------------------------------- the facade calls
PutAll(users) == [k \in 1..Len(users) |-> PutReq(users[k])]

addUsersBulkPutsFirstOnly(users, s) ==
    NewTxn("addUsersBulk", "readwrite", [NoArg EXCEPT !.users = users],
           IF users = <<>> THEN <<>> ELSE <<PutReq(users[1])>>, s)

addUsersBulkTxn(users, s) ==
    NewTxn("addUsersBulk", "readwrite", [NoArg EXCEPT !.users = users], PutAll(users), s)

addUserTxn(user, s) ==
    NewTxn("addUser", "readwrite", [NoArg EXCEPT !.users = <<user>>, !.id = user.id],
           <<PutReq(user)>>, s)

deleteUserClearsStore(userId, s) ==
    NewTxn("deleteUser", "readwrite", [NoArg EXCEPT !.id = userId], <<ClearReq>>, s)

deleteUserTxn(userId, s) ==
    NewTxn("deleteUser", "readwrite", [NoArg EXCEPT !.id = userId], <<DeleteReq(userId)>>, s)

clearUsersPlacesNoRequest(s) ==
    NewTxn("clearUsers", "readwrite", NoArg, <<>>, s)

clearUsersTxn(s) ==
    NewTxn("clearUsers", "readwrite", NoArg, <<ClearReq>>, s)

getUserPlacesDelete(userId, s) ==
    NewTxn("getUser", "readwrite", [NoArg EXCEPT !.id = userId], <<DeleteReq(userId)>>, s)

getUserTxn(userId, s) ==
    NewTxn("getUser", "readonly", [NoArg EXCEPT !.id = userId], <<>>, s)

getAllUsersTxn(s) ==
    NewTxn("getAllUsers", "readonly", [NoArg EXCEPT !.order = "asc"], <<>>, s)

getUsersTxn(order, count, skip, s) ==
    NewTxn("getUsers", "readonly",
           [NoArg EXCEPT !.order = order, !.count = count, !.skip = skip], <<>>, s)

\* ------------------------------------------------------------ the handlers
OnRequestSuccessResolves(t) == Resolve(t, Undefined)

\* store.put(user) / store.delete(userId) / store.clear(): the request object
\* is dropped, so the success event of a write request runs no code of the
\* script.
OnRequestSuccess(t) == t

\* transaction.oncomplete = () => resolve()
OnComplete(t) == Resolve(t, Undefined)

\* transaction.onerror = () => reject("Failed to ...")
OnError(t) == Reject(t, ErrorMessage(t.op))

\* The script registers no transaction.onabort handler: an abort event that
\* no request error preceded runs no code of the script.
OnAbort(t) == t

OrNullIdentity(v) == v

\* request.result || null
OrNull(v) == IF v = Undefined THEN Null ELSE v

\* getUser: request.onsuccess = () => resolve(request.result || null)
getUserOnSuccess(t, result) == Resolve(t, OrNull(result))

\* const cursor = event.target.result: the handler is handed a record, or null.
Inspect(t, cursor) == IF cursor # Null THEN [t EXCEPT !.seen = @ + 1] ELSE t

\* cursor.continue(): the cursor is asked for the record after cursor.key.
Continue(t, cursor) == [t EXCEPT !.key = cursor.id, !.continues = @ + 1]

\* getAllUsers: request.onsuccess
getAllUsersResolvesNewArray(t, cursor) ==
    IF cursor # Null
    THEN Continue([t EXCEPT !.users = Append(@, cursor)], cursor)
    ELSE Resolve(t, <<>>)

getAllUsersOnSuccess(t, cursor) ==
    IF cursor # Null
    THEN Continue([t EXCEPT !.users = Append(@, cursor)], cursor)
    ELSE Resolve(t, t.users)

DirectionSwapped(order) == IF order = "asc" THEN "prev" ELSE "next"

\* const direction = order === "asc" ? "next" : "prev"
Direction(order) == IF order = "asc" THEN "next" ELSE "prev"

getUsersReadsToEnd(t, cursor) ==
    IF cursor # Null
    THEN IF t.skipped < t.arg.skip
         THEN Continue([t EXCEPT !.skipped = @ + 1], cursor)
         ELSE IF Len(t.users) < t.arg.count
              THEN Continue([t EXCEPT !.users = Append(@, cursor)], cursor)
              ELSE Continue(t, cursor)
    ELSE Resolve(t, t.users)

getUsersForgetsExhaustedCursor(t, cursor) ==
    IF cursor # Null
    THEN IF t.skipped < t.arg.skip
         THEN Continue([t EXCEPT !.skipped = @ + 1], cursor)
         ELSE IF Len(t.users) < t.arg.count
              THEN Continue([t EXCEPT !.users = Append(@, cursor)], cursor)
              ELSE Resolve(t, t.users)
    ELSE t

getUsersCollectsOneMore(t, cursor) ==
    IF cursor # Null
    THEN IF t.skipped < t.arg.skip
         THEN Continue([t EXCEPT !.skipped = @ + 1], cursor)
         ELSE IF Len(t.users) <= t.arg.count
              THEN Continue([t EXCEPT !.users = Append(@, cursor)], cursor)
              ELSE Resolve(t, t.users)
    ELSE Resolve(t, t.users)

\* getUsers: request.onsuccess
getUsersOnSuccess(t, cursor) ==
    IF cursor # Null
    THEN IF t.skipped < t.arg.skip
         THEN Continue([t EXCEPT !.skipped = @ + 1], cursor)
         ELSE IF Len(t.users) < t.arg.count
              THEN Continue([t EXCEPT !.users = Append(@, cursor)], cursor)
              ELSE Resolve(t, t.users)
    ELSE Resolve(t, t.users)

\* A read-only transaction has no request left, and finishes, when its
\* handler returned without calling cursor.continue().
AfterRead(old, new) ==
    IF new.continues > old.continues THEN new ELSE [new EXCEPT !.status = "complete"]

\* -------------------------------------------------- the platform's scheduling
\* Transactions on the same store run in creation order, except that
\* read-only transactions run side by side.
CanRun(k) ==
    /\ k \in DOMAIN txns
    /\ txns[k].status = "active"
    /\ \A j \in 1..(k - 1) :
          txns[j].status = "active" =>
              (txns[j].mode = "readonly" /\ txns[k].mode = "readonly")

Finished(t) == t.status # "active"

\* ------------------------------------------------------- the platform's events
\* A put / delete / clear request of a read-write transaction is processed.
\* The script sets no handler on these requests.
RequestSuccess(k) ==
    /\ CanRun(k)
    /\ txns[k].mode = "readwrite"
    /\ txns[k].reqs # <<>>
    /\ txns' = [txns EXCEPT ![k] =
                  OnRequestSuccess([@ EXCEPT !.done = Append(@, Head(txns[k].reqs)),
                                             !.reqs = Tail(@)])]
    /\ UNCHANGED <<store, cleared, bulk, pages>>

\* The content of the store after a transaction aborted: its writes are undone.
Aborted(s, t) == s

\* The content of the store after a transaction committed.
Committed(s, t) == ApplyAll(s, t.done)

\* A request of a read-write transaction fails: its error event bubbles to
\* transaction.onerror, and the transaction aborts.
RequestError(k) ==
    /\ CanRun(k)
    /\ txns[k].mode = "readwrite"
    /\ txns[k].reqs # <<>>
    /\ txns' = [txns EXCEPT ![k] = [OnError(@) EXCEPT !.status = "aborted"]]
    /\ store' = Aborted(store, txns[k])
    /\ UNCHANGED <<cleared, bulk, pages>>

\* All requests are processed and the commit succeeds: the complete event.
TxnComplete(k) ==
    /\ CanRun(k)
    /\ txns[k].mode = "readwrite"
    /\ txns[k].reqs = <<>>
    /\ txns' = [txns EXCEPT ![k] = [OnComplete(@) EXCEPT !.status = "complete"]]
    /\ store' = Committed(store, txns[k])
    /\ cleared' = (txns[k].op = "clearUsers")
    /\ UNCHANGED <<bulk, pages>>

\* All requests are processed and the commit fails (quota, disk): the
\* transaction fires abort, and no request fires error.
TxnAbort(k) ==
    /\ CanRun(k)
    /\ txns[k].mode = "readwrite"
    /\ txns[k].reqs = <<>>
    /\ txns' = [txns EXCEPT ![k] = [OnAbort(@) EXCEPT !.status = "aborted"]]
    /\ store' = Aborted(store, txns[k])
    /\ UNCHANGED <<cleared, bulk, pages>>

\* The success event of store.get(userId).  A get, like a cursor request, of a
\* valid key succeeds whether or not the key is stored; failures of the
\* storage medium under a read are left out of the model.
GetSuccess(k) ==
    /\ CanRun(k)
    /\ txns[k].op = "getUser"
    /\ txns' = [txns EXCEPT ![k] =
                  AfterRead(@, getUserOnSuccess(@, StoreGet(store, txns[k].arg.id)))]
    /\ UNCHANGED <<store, cleared, bulk, pages>>

\* A success event of the cursor of getAllUsers.
GetAllCursorSuccess(k) ==
    /\ CanRun(k)
    /\ txns[k].op = "getAllUsers"
    /\ txns' = [txns EXCEPT ![k] =
                  AfterRead(@, getAllUsersOnSuccess(Inspect(@, CursorAt(store, "next", txns[k].key)),
                                                CursorAt(store, "next", txns[k].key)))]
    /\ UNCHANGED <<store, cleared, bulk, pages>>

\* A success event of the cursor of getUsers.
GetUsersCursorSuccess(k) ==
    /\ CanRun(k)
    /\ txns[k].op = "getUsers"
    /\ txns' = [txns EXCEPT ![k] =
                  LET cursor == CursorAt(store, Direction(txns[k].arg.order), txns[k].key)
                  IN  AfterRead(@, getUsersOnSuccess(Inspect(@, cursor), cursor))]
    /\ UNCHANGED <<store, cleared, bulk, pages>>

\* ------------------------------------------------ the script, one call at a time
\* The top-level script awaits every call before it makes the next one.
Call(t) ==
    /\ txns = <<>>
    /\ txns' = <<t>>
    /\ UNCHANGED <<store, cleared, bulk, pages>>

addUser == \E u \in Users : Call(addUserTxn(u, store))

Batches == UNION {[1..n -> Users] : n \in 0..MaxBatch}

addUsersBulk == \E us \in Batches : Call(addUsersBulkTxn(us, store))

deleteUser == \E id \in Ids : Call(deleteUserTxn(id, store))

clearUsers == Call(clearUsersTxn(store))

getUser == \E id \in Ids : Call(getUserTxn(id, store))

getAllUsers == Call(getAllUsersTxn(store))

getUsers ==
    \E order \in Orders : \E count \in 0..MaxCount : \E skip \in 0..MaxSkip :
        Call(getUsersTxn(order, count, skip, store))

\* The awaiting caller resumes with the settled promise.
Return ==
    /\ txns # <<>>
    /\ txns[1].promise # "pending"
    /\ txns' = <<>>
    /\ UNCHANGED <<store, cleared, bulk, pages>>

\* The caller of a call whose promise never settles waits for ever; the page
\* is loaded again and the script starts over.
Reload ==
    /\ txns # <<>>
    /\ Finished(txns[1])
    /\ txns[1].promise = "pending"
    /\ txns' = <<>>
    /\ UNCHANGED <<store, cleared, bulk, pages>>

NoBulk == [pc |-> "idle", i |-> 0, batchSize |-> 0, calls |-> 0]

NoPages == [order |-> "", count |-> 0, skip |-> 0, results |-> <<>>]

Init ==
    /\ store = {}
    /\ txns = <<>>
    /\ cleared = FALSE
    /\ bulk = NoBulk
    /\ pages = NoPages

Next ==
    \/ addUser
    \/ addUsersBulk
    \/ deleteUser
    \/ clearUsers
    \/ getUser
    \/ getAllUsers
    \/ getUsers
    \/ RequestSuccess(1)
    \/ RequestError(1)
    \/ TxnComplete(1)
    \/ TxnAbort(1)
    \/ GetSuccess(1)
    \/ GetAllCursorSuccess(1)
    \/ GetUsersCursorSuccess(1)
    \/ Return
    \/ Reload

Spec == Init /\ [][Next]_vars

\* ------------------------------------------------- claims about single calls
Range(seq) == {seq[k] : k \in DOMAIN seq}

Min(a, b) == IF a < b THEN a ELSE b

Ascending(seq) == \A i \in DOMAIN seq : \A j \in DOMAIN seq : i < j => seq[i].id < seq[j].id

Descending(seq) == \A i \in DOMAIN seq : \A j \in DOMAIN seq : i < j => seq[i].id > seq[j].id

\* What getUser(id) returns when it runs on the present store.
GetUserNow(id) == getUserOnSuccess(getUserTxn(id, store), StoreGet(store, id)).result

\* The last record of a batch with the given id.
LastOf(users, id) ==
    users[CHOOSE k \in DOMAIN users :
            /\ users[k].id = id
            /\ \A j \in DOMAIN users : users[j].id = id => j <= k]

\* C1: getUsers("asc", n, 0) resolves with the n records of smallest id in
\* ascending id order, getUsers("desc", n, 0) with the n records of largest id
\* in descending order; all stored records when fewer than n are stored.
ThmC1 ==
    \A k \in DOMAIN txns :
        LET t == txns[k]
            r == t.result
        IN  (t.op = "getUsers" /\ t.promise = "resolved" /\ t.arg.skip = 0
                /\ t.arg.order \in {"asc", "desc"}) =>
              /\ Range(r) \subseteq store
              /\ Len(r) = Min(t.arg.count, Cardinality(store))
              /\ t.arg.order = "asc" =>
                    /\ Ascending(r)
                    /\ \A u \in store \ Range(r) : \A i \in DOMAIN r : r[i].id < u.id
              /\ t.arg.order = "desc" =>
                    /\ Descending(r)
                    /\ \A u \in store \ Range(r) : \A i \in DOMAIN r : r[i].id > u.id

WitC1 ==
    /\ txns # <<>>
    /\ txns[1].op = "getUsers"
    /\ txns[1].promise = "resolved"
    /\ txns[1].arg = [NoArg EXCEPT !.order = "desc", !.count = 2, !.skip = 0]
    /\ Cardinality(store) = 3
    /\ Len(txns[1].result) = 2

\* C3 as stated: after addUser(u), or addUsersBulk of a batch containing u,
\* resolved for a stored id, getUser(u.id) returns u and the number of records
\* is unchanged; the store never holds two records with one id.
CexC3 ==
    /\ UniqueKeys(store)
    /\ \A k \in DOMAIN txns :
          LET t == txns[k]
          IN  (t.op \in {"addUser", "addUsersBulk"} /\ t.promise = "resolved") =>
                \A u \in Range(t.arg.users) :
                    u.id \in Keys(t.pre) =>
                        /\ GetUserNow(u.id) = u
                        /\ Cardinality(store) = Cardinality(t.pre)

\* C3 amended: the store never holds two records with one id; after
\* addUser(u) resolved for a stored id, getUser(u.id) returns u and the number
\* of records is unchanged; after addUsersBulk(users) resolved, getUser(id)
\* returns, for every id of the batch, the last record of the batch with that
\* id, and the number of records has grown by the number of distinct ids of
\* the batch that were not stored before.
ThmC3 ==
    /\ UniqueKeys(store)
    /\ \A k \in DOMAIN txns :
          LET t == txns[k]
              users == t.arg.users
          IN  /\ (t.op = "addUser" /\ t.promise = "resolved"
                    /\ users[1].id \in Keys(t.pre)) =>
                    /\ GetUserNow(users[1].id) = users[1]
                    /\ Cardinality(store) = Cardinality(t.pre)
              /\ (t.op = "addUsersBulk" /\ t.promise = "resolved") =>
                    /\ \A id \in Keys(Range(users)) : GetUserNow(id) = LastOf(users, id)
                    /\ Cardinality(store) =
                          Cardinality(t.pre) + Cardinality(Keys(Range(users)) \ Keys(t.pre))

WitC3 ==
    /\ txns # <<>>
    /\ txns[1].op = "addUsersBulk"
    /\ txns[1].promise = "resolved"
    /\ txns[1].pre = {[id |-> 0, val |-> "a"]}
    /\ txns[1].arg.users = <<[id |-> 0, val |-> "b"], [id |-> 1, val |-> "a"]>>
    /\ store = {[id |-> 0, val |-> "b"], [id |-> 1, val |-> "a"]}

\* C4 as stated: after deleteUser(id) resolved, getUser(id) returns null, the
\* number of records has dropped by one, and every record with another id is
\* stored unchanged.
CexC4 ==
    \A k \in DOMAIN txns :
        LET t == txns[k]
        IN  (t.op = "deleteUser" /\ t.promise = "resolved") =>
              /\ GetUserNow(t.arg.id) = Null
              /\ Cardinality(store) = Cardinality(t.pre) - 1
              /\ \A r \in t.pre : r.id # t.arg.id => r \in store

\* C4 amended: deleteUser(id) removes at most one record: after it resolved,
\* getUser(id) returns null, the number of records has dropped by one when id
\* was stored and is unchanged when it was not, and every record with another
\* id is stored unchanged (and nothing else is stored).
ThmC4 ==
    \A k \in DOMAIN txns :
        LET t == txns[k]
        IN  (t.op = "deleteUser" /\ t.promise = "resolved") =>
              /\ GetUserNow(t.arg.id) = Null
              /\ Cardinality(store) =
                    Cardinality(t.pre) - (IF t.arg.id \in Keys(t.pre) THEN 1 ELSE 0)
              /\ \A r \in t.pre : r.id # t.arg.id => r \in store
              /\ store \subseteq t.pre

WitC4 ==
    /\ txns # <<>>
    /\ txns[1].op = "deleteUser"
    /\ txns[1].promise = "resolved"
    /\ txns[1].arg.id = 1
    /\ Keys(txns[1].pre) = {0, 1, 2}
    /\ Keys(store) = {0, 2}

ThmC6 ==
    /\ \A k \in DOMAIN txns :
          (txns[k].op = "clearUsers" /\ txns[k].promise = "resolved") => store = {}
    /\ \A k \in DOMAIN txns :
          (txns[k].op = "getAllUsers" /\ txns[k].promise = "resolved"
              /\ cleared) => txns[k].result = <<>>

WitC6 ==
    /\ txns # <<>>
    /\ txns[1].op = "getAllUsers"
    /\ txns[1].promise = "resolved"
    /\ cleared

\* C7: getAllUsers() resolves with every stored record exactly once in
\* ascending id order, and so does getUsers("asc", N, 0) for N the number of
\* stored records: the two results are equal.
ThmC7 ==
    \A k \in DOMAIN txns :
        LET t == txns[k]
            r == t.result
        IN  (/\ t.promise = "resolved"
             /\ \/ t.op = "getAllUsers"
                \/ /\ t.op = "getUsers"
                   /\ t.arg.order = "asc"
                   /\ t.arg.skip = 0
                   /\ t.arg.count = Cardinality(store)) =>
              /\ Range(r) = store
              /\ Len(r) = Cardinality(store)
              /\ Ascending(r)

WitC7 ==
    /\ txns # <<>>
    /\ txns[1].op = "getAllUsers"
    /\ txns[1].promise = "resolved"
    /\ Len(txns[1].result) = 3

\* ------------------------------------------------- pagination (script lines 224-231)
\* Three calls on one store content, each awaited: a page, the page after it,
\* and both pages in one call.
StoreContents == {s \in SUBSET Users : UniqueKeys(s)}

PagesInit ==
    /\ store \in StoreContents
    /\ txns = <<>>
    /\ cleared = FALSE
    /\ bulk = NoBulk
    /\ \E order \in Orders : \E n \in 1..MaxCount : \E skip \in 0..MaxSkip :
          pages = [order |-> order, count |-> n, skip |-> skip, results |-> <<>>]

PageCall ==
    /\ txns = <<>>
    /\ Len(pages.results) < 3
    /\ txns' = <<CASE Len(pages.results) = 0 ->
                        getUsersTxn(pages.order, pages.count, pages.skip, store)
                   [] Len(pages.results) = 1 ->
                        getUsersTxn(pages.order, pages.count, pages.skip + pages.count, store)
                   [] OTHER ->
                        getUsersTxn(pages.order, 2 * pages.count, pages.skip, store)>>
    /\ UNCHANGED <<store, cleared, bulk, pages>>

\* .then(users => ...): the caller receives the page.
PageReturn ==
    /\ txns # <<>>
    /\ txns[1].promise = "resolved"
    /\ pages' = [pages EXCEPT !.results = Append(@, txns[1].result)]
    /\ txns' = <<>>
    /\ UNCHANGED <<store, cleared, bulk>>

PagesNext ==
    \/ PageCall
    \/ GetUsersCursorSuccess(1)
    \/ PageReturn

SpecPages == PagesInit /\ [][PagesNext]_vars

\* C2: on an unmodified store, getUsers(order, n, skip) and
\* getUsers(order, n, skip + n) share no record, no stored record lies between
\* the last record of the first and the first record of the second, and the
\* two results concatenated are the result of getUsers(order, 2n, skip).
ThmC2 ==
    Len(pages.results) = 3 =>
        LET p1 == pages.results[1]
            p2 == pages.results[2]
            both == pages.results[3]
        IN  /\ Range(p1) \cap Range(p2) = {}
            /\ p1 \o p2 = both
            /\ (p1 # <<>> /\ p2 # <<>>) =>
                  ~ \E r \in store :
                        \/ p1[Len(p1)].id < r.id /\ r.id < p2[1].id
                        \/ p2[1].id < r.id /\ r.id < p1[Len(p1)].id

WitC2 ==
    /\ Len(pages.results) = 3
    /\ pages.skip = 1
    /\ pages.count = 1
    /\ pages.order = "desc"
    /\ Len(pages.results[1]) = 1
    /\ Len(pages.results[2]) = 1
    /\ Cardinality(store) = 3

\* --------------------------------------------- addLargeNumberOfUsers(batchSize)
\* Array.from({ length: batchSize }, (_, index) => ({ id: i + index, ... })):
\* vals[index] stands for the fields drawn with Math.random().
UsersBatch(i, batchSize, vals) ==
    [index \in 1..batchSize |-> [id |-> i + index - 1, val |-> vals[index]]]

LoopConditionInclusive(b) == b.i <= TotalUsers

\* for (let i = 0; i < totalUsers; i += batchSize)
LoopCondition(b) == b.i < TotalUsers

AfterCallNoAwait(b) == [b EXCEPT !.i = @ + b.batchSize, !.calls = @ + 1]

\* await addUsersBulk(usersBatch): the loop is suspended until the promise of
\* the call settles.
AfterCall(b) == [b EXCEPT !.pc = "await", !.calls = @ + 1]

BulkInit ==
    /\ store = {}
    /\ txns = <<>>
    /\ cleared = FALSE
    /\ bulk = NoBulk
    /\ pages = NoPages

addLargeNumberOfUsers ==
    /\ bulk.pc = "idle"
    /\ \E batchSize \in 1..MaxBatchSize :
          bulk' = [pc |-> "loop", i |-> 0, batchSize |-> batchSize, calls |-> 0]
    /\ UNCHANGED <<store, txns, cleared, pages>>

\* One pass of the loop body up to the await.
LoopBody ==
    /\ bulk.pc = "loop"
    /\ LoopCondition(bulk)
    /\ \E vals \in [1..bulk.batchSize -> Vals] :
          txns' = Append(txns, addUsersBulkTxn(UsersBatch(bulk.i, bulk.batchSize, vals), store))
    /\ bulk' = AfterCall(bulk)
    /\ UNCHANGED <<store, cleared, pages>>

\* The awaited promise resolved: console.log, i += batchSize, next test.
AwaitResolved ==
    /\ bulk.pc = "await"
    /\ txns[bulk.calls].promise = "resolved"
    /\ bulk' = [bulk EXCEPT !.pc = "loop", !.i = @ + bulk.batchSize]
    /\ UNCHANGED <<store, txns, cleared, pages>>

\* The awaited promise rejected: the await throws and the function ends.
AwaitRejected ==
    /\ bulk.pc = "await"
    /\ txns[bulk.calls].promise = "rejected"
    /\ bulk' = [bulk EXCEPT !.pc = "failed"]
    /\ UNCHANGED <<store, txns, cleared, pages>>

\* The loop condition is false: console.log("Finished inserting ...").
LoopExit ==
    /\ bulk.pc = "loop"
    /\ ~ LoopCondition(bulk)
    /\ bulk' = [bulk EXCEPT !.pc = "done"]
    /\ UNCHANGED <<store, txns, cleared, pages>>

BulkNext ==
    \/ addLargeNumberOfUsers
    \/ LoopBody
    \/ AwaitResolved
    \/ AwaitRejected
    \/ LoopExit
    \/ \E k \in DOMAIN txns : RequestSuccess(k)
    \/ \E k \in DOMAIN txns : RequestError(k)
    \/ \E k \in DOMAIN txns : TxnComplete(k)
    \/ \E k \in DOMAIN txns : TxnAbort(k)

SpecBulk == BulkInit /\ [][BulkNext]_vars

\* C8 as stated: when addLargeNumberOfUsers(batchSize), run on an empty store,
\* has finished, the store holds exactly the records with ids
\* 0 .. totalUsers - 1, each once, and no record with a larger id.
CexC8 ==
    bulk.pc = "done" =>
        /\ Keys(store) = 0..(TotalUsers - 1)
        /\ Cardinality(store) = TotalUsers

\* C9: during addLargeNumberOfUsers at most one addUsersBulk transaction is
\* in flight, and the transaction of a batch is created only after the
\* transaction of the batch before it completed.
ThmC9 ==
    /\ Cardinality({k \in DOMAIN txns : txns[k].status = "active"}) <= 1
    /\ \A k \in DOMAIN txns : k < Len(txns) => txns[k].status = "complete"

WitC9 ==
    /\ Len(txns) = 2
    /\ txns[1].status = "complete"
    /\ txns[2].status = "active"
    /\ txns[2].done # <<>>

\* C10 as stated: a failed addUsersBulk transaction rejects the promise and
\* leaves the store as it was before the call; a resolved one has stored every
\* record of the batch; in addLargeNumberOfUsers no batch is attempted after a
\* failed one and the batches before it stay stored.
CexC10 ==
    \A k \in DOMAIN txns :
        LET t == txns[k]
        IN  /\ t.status = "aborted" =>
                  /\ t.promise = "rejected"
                  /\ store = t.pre
                  /\ k = Len(txns)
                  /\ \A j \in 1..(k - 1) : Range(txns[j].arg.users) \subseteq store
            /\ t.promise = "resolved" => Range(t.arg.users) \subseteq store

\* ------------------------------------------------------ promises and commits
WriteOps == {"addUser", "addUsersBulk", "deleteUser", "clearUsers"}

ReadOps == {"getUser", "getAllUsers", "getUsers"}

\* C11: the promise of addUser, addUsersBulk, deleteUser and clearUsers is
\* resolved only when the transaction has committed: from then on the store
\* holds the effect of the write, which a read that starts then observes.
ThmC11 ==
    \A k \in DOMAIN txns :
        LET t == txns[k]
        IN  (t.op \in WriteOps /\ t.promise = "resolved") =>
              /\ t.status = "complete"
              /\ t.reqs = <<>>
              /\ t.op \in {"addUser", "addUsersBulk"} =>
                    \A id \in Keys(Range(t.arg.users)) :
                        GetUserNow(id) = LastOf(t.arg.users, id)
              /\ t.op = "deleteUser" => GetUserNow(t.arg.id) = Null
              /\ t.op = "clearUsers" => store = {}

WitC11 ==
    /\ txns # <<>>
    /\ txns[1].op = "addUser"
    /\ txns[1].promise = "resolved"
    /\ txns[1].pre = {[id |-> 1, val |-> "a"]}
    /\ txns[1].arg.users = <<[id |-> 1, val |-> "b"]>>
    /\ store = {[id |-> 1, val |-> "b"]}

\* C12 as stated: every call of addUser, addUsersBulk, deleteUser or
\* clearUsers settles its promise exactly once: resolved when the transaction
\* committed, rejected with a string when it failed, a transaction that ends by
\* abort included; no finished transaction leaves the promise pending.
CexC12 ==
    \A k \in DOMAIN txns :
        LET t == txns[k]
        IN  (t.op \in WriteOps /\ Finished(t)) =>
              /\ t.settles = 1
              /\ t.status = "complete" => t.promise = "resolved"
              /\ t.status = "aborted" =>
                    /\ t.promise = "rejected"
                    /\ t.result = [error |-> ErrorMessage(t.op)]

\* ------------------------------------------------------- the cursor of getUsers
\* C13 as stated: getUsers resolves as soon as count records are collected,
\* without advancing the cursor again, and so is handed at most skip + count
\* records of the store.
CexC13 ==
    \A k \in DOMAIN txns :
        LET t == txns[k]
        IN  t.op = "getUsers" =>
              /\ (t.arg.count >= 1 /\ Len(t.users) = t.arg.count) => t.promise = "resolved"
              /\ t.promise = "resolved" => t.seen <= t.arg.skip + t.arg.count

\* C13 amended: getUsers stops early, one record late: after the record that
\* completes the count it advances the cursor once more, and resolves on the
\* next success event without a further advance; it calls cursor.continue()
\* at most skip + count times and is handed at most skip + count + 1 records,
\* exactly so many when more than skip + count records are stored.
ThmC13 ==
    \A k \in DOMAIN txns :
        LET t == txns[k]
        IN  (t.op = "getUsers" /\ t.promise = "resolved") =>
              /\ t.status = "complete"
              /\ t.continues <= t.arg.skip + t.arg.count
              /\ t.seen <= t.arg.skip + t.arg.count + 1
              /\ Cardinality(store) > t.arg.skip + t.arg.count =>
                    /\ t.continues = t.arg.skip + t.arg.count
                    /\ t.seen = t.arg.skip + t.arg.count + 1

WitC13 ==
    /\ txns # <<>>
    /\ txns[1].op = "getUsers"
    /\ txns[1].promise = "resolved"
    /\ txns[1].arg.count = 1
    /\ txns[1].arg.skip = 0
    /\ Cardinality(store) = 3
    /\ txns[1].seen = 2
    /\ txns[1].continues = 1

\* getUsers called again and again on one store content.  The platform
\* delivers the success event of every pending cursor request.
CursorInit ==
    /\ store \in StoreContents
    /\ txns = <<>>
    /\ cleared = FALSE
    /\ bulk = NoBulk
    /\ pages = NoPages

CursorNext ==
    \/ getUsers
    \/ GetUsersCursorSuccess(1)
    \/ Return

SpecCursor == CursorInit /\ [][CursorNext]_vars /\ WF_vars(GetUsersCursorSuccess(1))

\* What holds of a getUsers call at every moment: resolve is called at most
\* once; once resolved, the transaction has no request left and the result
\* holds at most count records, none when count is 0 or skip is at least the
\* number of stored records.
GetUsersSettledOnce ==
    \A k \in DOMAIN txns :
        LET t == txns[k]
        IN  t.op = "getUsers" =>
              /\ t.settles <= 1
              /\ t.promise = "resolved" =>
                    /\ t.settles = 1
                    /\ t.status = "complete"
                    /\ Len(t.result) <= t.arg.count
                    /\ (t.arg.count = 0 \/ t.arg.skip >= Cardinality(store)) =>
                          t.result = <<>>

\* C14: on every store content and for every count >= 0 and skip >= 0 the
\* cursor loop of getUsers ends: the call resolves, exactly once, with at most
\* count records (none when count is 0 or skip is at least the number of
\* stored records), and cursor.continue() is not called after the resolve.
ThmC14 ==
    /\ []GetUsersSettledOnce
    /\ [][(txns # <<>> /\ txns[1].promise = "resolved") =>
              (txns' = <<>> \/ txns'[1].continues = txns[1].continues)]_vars
    /\ (txns # <<>>) ~> (txns # <<>> /\ txns[1].promise = "resolved")

WitC14 ==
    /\ txns # <<>>
    /\ txns[1].op = "getUsers"
    /\ txns[1].promise = "resolved"
    /\ txns[1].arg.skip = 2
    /\ txns[1].arg.count = 2
    /\ Cardinality(store) = 3
    /\ Len(txns[1].result) = 1

\* ------------------------------------------- the batches of addLargeNumberOfUsers
\* The event loop runs every continuation that is ready and delivers every
\* event of a transaction.
SpecBulkFair == SpecBulk /\ WF_vars(BulkNext)

\* ceil(totalUsers / batchSize)
BatchCount(batchSize) == (TotalUsers + batchSize - 1) \div batchSize

\* Every addUsersBulk call made so far has exactly batchSize records with
\* consecutive ids that start at a multiple of batchSize; no id is in two
\* batches; no more than ceil(total / batchSize) calls are made, and exactly
\* so many when the function has finished.
BatchesWellFormed ==
    /\ \A k \in DOMAIN txns :
          LET users == txns[k].arg.users
          IN  /\ txns[k].op = "addUsersBulk"
              /\ Len(users) = bulk.batchSize
              /\ users[1].id % bulk.batchSize = 0
              /\ \A j \in 1..(Len(users) - 1) : users[j + 1].id = users[j].id + 1
              /\ \A j \in DOMAIN txns :
                    j # k => Keys(Range(users)) \cap Keys(Range(txns[j].arg.users)) = {}
    /\ bulk.calls = Len(txns)
    /\ bulk.pc # "idle" => Len(txns) <= BatchCount(bulk.batchSize)
    /\ bulk.pc = "done" => Len(txns) = BatchCount(bulk.batchSize)

\* C15: addLargeNumberOfUsers(batchSize) ends for every batchSize >= 1 unless
\* a batch fails, after exactly ceil(total / batchSize) addUsersBulk calls,
\* each with exactly batchSize records of consecutive ids starting at a
\* multiple of batchSize, no id in two batches.
ThmC15 ==
    /\ []BatchesWellFormed
    /\ <>(bulk.pc = "done" \/ \E k \in DOMAIN txns : txns[k].status = "aborted")

WitC15 ==
    /\ bulk.pc = "done"
    /\ bulk.batchSize = 3
    /\ Len(txns) = 2
    /\ \A k \in DOMAIN txns : txns[k].promise = "resolved"

\* ------------------------------------- the end of the script (lines 217-235)
\* await deleteUser(id), then three reads that are not awaited: their
\* transactions are live together and their events interleave.  The script's
\* reads are getUsers("desc", n, 0), getUsers("desc", n, n) and
\* getUsers("asc", n, 0); getUser and getAllUsers are let in their places too.
ScriptReads(slot, s) ==
    CASE slot = 1 -> {getUsersTxn("desc", PageSize, 0, s), getUserTxn(txns[1].arg.id, s)}
      [] slot = 2 -> {getUsersTxn("desc", PageSize, PageSize, s), getAllUsersTxn(s)}
      [] OTHER -> {getUsersTxn("asc", PageSize, 0, s)}

ReadsInit ==
    /\ store \in StoreContents
    /\ txns = <<>>
    /\ cleared = FALSE
    /\ bulk = NoBulk
    /\ pages = NoPages

ScriptDelete ==
    /\ txns = <<>>
    /\ \E id \in Ids : txns' = <<deleteUserTxn(id, store)>>
    /\ UNCHANGED <<store, cleared, bulk, pages>>

\* A read is called once the awaited deleteUser resolved (a rejection ends
\* the script); it is not awaited, so the next one is called right away.
ScriptRead ==
    /\ Len(txns) \in 1..3
    /\ txns[1].promise = "resolved"
    /\ \E t \in ScriptReads(Len(txns), store) : txns' = Append(txns, t)
    /\ UNCHANGED <<store, cleared, bulk, pages>>

ReadsNext ==
    \/ ScriptDelete
    \/ ScriptRead
    \/ \E k \in DOMAIN txns : RequestSuccess(k)
    \/ \E k \in DOMAIN txns : RequestError(k)
    \/ \E k \in DOMAIN txns : TxnComplete(k)
    \/ \E k \in DOMAIN txns : TxnAbort(k)
    \/ \E k \in DOMAIN txns : GetSuccess(k)
    \/ \E k \in DOMAIN txns : GetAllCursorSuccess(k)
    \/ \E k \in DOMAIN txns : GetUsersCursorSuccess(k)

SpecReads == ReadsInit /\ [][ReadsNext]_vars

\* One success event of a read call that runs alone on the content s.
ReadStep(t, s) ==
    CASE t.op = "getUser" -> AfterRead(t, getUserOnSuccess(t, StoreGet(s, t.arg.id)))
      [] t.op = "getAllUsers" ->
            AfterRead(t, getAllUsersOnSuccess(Inspect(t, CursorAt(s, "next", t.key)),
                                              CursorAt(s, "next", t.key)))
      [] OTHER ->
            LET cursor == CursorAt(s, Direction(t.arg.order), t.key)
            IN  AfterRead(t, getUsersOnSuccess(Inspect(t, cursor), cursor))

\* The call as it was made.
AsCalled(t) ==
    CASE t.op = "getUser" -> getUserTxn(t.arg.id, t.pre)
      [] t.op = "getAllUsers" -> getAllUsersTxn(t.pre)
      [] OTHER -> getUsersTxn(t.arg.order, t.arg.count, t.arg.skip, t.pre)

\* The call run to its end with no other call beside it.
RECURSIVE RunAlone(_, _)
RunAlone(t, s) == IF Finished(t) THEN t ELSE RunAlone(ReadStep(t, s), s)

\* C16: getUser, getAllUsers and getUsers leave the stored records as they
\* were when the call was made, however their events interleave, and each
\* resolves with the result it has when it runs alone on that content.
ThmC16 ==
    \A k \in DOMAIN txns :
        LET t == txns[k]
        IN  t.op \in ReadOps =>
              /\ store = t.pre
              /\ Finished(t) =>
                    /\ t.promise = "resolved"
                    /\ t.result = RunAlone(AsCalled(t), t.pre).result

WitC16 ==
    /\ Len(txns) = 4
    /\ Cardinality(store) = 2
    /\ Cardinality(txns[1].pre) = 3
    /\ txns[2].op = "getUsers"
    /\ txns[2].promise = "resolved"
    /\ txns[3].op = "getAllUsers"
    /\ txns[3].status = "active"
    /\ txns[3].continues = 2
    /\ txns[4].promise = "resolved"

====
